---- MODULE Spec2Model ----
(***************************************************************************)
(* A model of src/main.py: the worm (segment chain, energy-driven body     *)
(* size), food, virus and the fixed-timestep Simulation.update.            *)
(*                                                                         *)
(* Python floats are modelled in fixed point.  Dimensionless reals         *)
(* (energy, size scale, exponents, unit vectors, times in seconds) are     *)
(* integers in units of 1/FP.  Lengths (positions, velocities, distances,  *)
(* radii) are integers in units of 1/LenUnit pixel.  Quotients round to    *)
(* the nearest unit, as a float operation rounds to the nearest float.     *)
(* Every intermediate product stays below 2^31.                            *)
(***************************************************************************)
EXTENDS Integers, Sequences, FiniteSets

VARIABLES worm, foods, viruses, manual_control, err, nticks, last

vars == <<worm, foods, viruses, manual_control, err, nticks, last>>

----------------------------------------------------------------------------
(* Fixed-point scales *)

FP == 6000
LenUnit == 600

Abs(a) == IF a < 0 THEN -a ELSE a

Max(a, b) == IF a >= b THEN a ELSE b

Min(a, b) == IF a <= b THEN a ELSE b

(* a / c rounded to the nearest unit, c > 0 *)
RDiv(a, c) == IF a >= 0 THEN (a + c \div 2) \div c ELSE -((-a + c \div 2) \div c)

(* a / c rounded toward zero, c > 0 *)
TDiv(a, c) == IF a >= 0 THEN a \div c ELSE -((-a) \div c)

----------------------------------------------------------------------------
(* math.sqrt and x ** 0.5 on non-negative integers, rounded to nearest *)

RECURSIVE SqrtSearch(_, _, _)
SqrtSearch(n, lo, hi) ==
    IF lo >= hi THEN lo
    ELSE LET mid == (lo + hi + 1) \div 2
         IN IF mid * mid <= n THEN SqrtSearch(n, mid, hi)
                              ELSE SqrtSearch(n, lo, mid - 1)

SqrtCap == 46340

Sqrt(n) ==
    LET Nearest(r) == IF n - r * r > r THEN r + 1 ELSE r
    IN  Nearest(SqrtSearch(n, 0, SqrtCap))

(* sqrt(dx * dx + dy * dy); a long vector is measured in coarser units, as a  *)
(* float keeps relative and not absolute precision                           *)
HypotCap == 30000

HypotStep == 10

RECURSIVE Hypot(_, _)
Hypot(dx, dy) ==
    IF Max(Abs(dx), Abs(dy)) > HypotCap
    THEN HypotStep * Hypot(RDiv(dx, HypotStep), RDiv(dy, HypotStep))
    ELSE Sqrt(dx * dx + dy * dy)

----------------------------------------------------------------------------
(* The float power i ** x of segment_sizes, through ln and exp in units    *)
(* of 1/FP.                                                                *)

Ln2 == 4159

(* 2 * (z + z^3/3 + z^5/5 + z^7/7 + z^9/9), z = (m - 1) / (m + 1), 1 <= m < 2 *)
LnMantissa(m) ==
    LET z  == RDiv((m - FP) * FP, m + FP)
        z2 == RDiv(z * z, FP)
        z3 == RDiv(z * z2, FP)
        z5 == RDiv(z3 * z2, FP)
        z7 == RDiv(z5 * z2, FP)
        z9 == RDiv(z7 * z2, FP)
    IN  RDiv(2 * (315 * z + 105 * z3 + 63 * z5 + 45 * z7 + 35 * z9), 315)

RECURSIVE Ln(_)
Ln(b) == IF b >= 2 * FP THEN Ln2 + Ln(RDiv(b, 2)) ELSE LnMantissa(b)

RECURSIVE ExpSeries(_, _, _, _)
ExpSeries(r, term, k, acc) ==
    IF term = 0 THEN acc
    ELSE LET t == RDiv(term * r, k * FP)
         IN ExpSeries(r, t, k + 1, acc + t)

RECURSIVE Pow2(_)
Pow2(n) == IF n = 0 THEN 1 ELSE 2 * Pow2(n - 1)

(* exp(x), x in units of 1/FP: x = n * ln 2 + r with 0 <= r < ln 2 *)
Exp(x) ==
    LET n == x \div Ln2
        r == x - n * Ln2
        e == ExpSeries(r, FP, 1, FP)
    IN  IF n >= 0 THEN e * Pow2(n) ELSE RDiv(e, Pow2(-n))

(* below exp(-ExpFloor) a value is less than one unit of 1/FP *)
ExpFloor == 10

(* b ** x for b >= 1, in units of 1/FP *)
Pow(b, x) ==
    LET ExpOf(l) == IF l = 0 THEN FP
                    ELSE IF x < -((ExpFloor * FP * FP) \div l) THEN 0
                    ELSE Exp(RDiv(l * x, FP))
    IN  ExpOf(Ln(b))

----------------------------------------------------------------------------
(* Worm: adjustable parameters *)

BaseSize == 10
Power == 10
Drag == 240
EnergyEfficiency == 5940
VisionRange == 200
BodyThickness == 900
BodySizeMultiplier == 3
BodySizeFunctionOffset == 600
ScaleEpsilon == 6
HeadFloor == 6000
TailCutoff == 3000
NodeOverlap == 3000

(* update_dt = 1 / TicksPerSecond *)
TicksPerSecond == 60

(* the longest size sequence the generator is followed for *)
MaxSegments == 16

(* i ** (body_thickness - i / scale) *)
SizeAt(i, scale) == Pow(i, BodyThickness - RDiv(i * FP, scale))

RECURSIVE SizesLoop(_, _, _)
SizesLoop(i, scale, out) ==
    LET j == i + FP
        Yield(s) == IF s < TailCutoff THEN [out |-> out, done |-> TRUE]
                    ELSE IF Len(out) >= MaxSegments THEN [out |-> out, done |-> FALSE]
                    ELSE SizesLoop(j, scale, Append(out, s))
    IN  Yield(SizeAt(j, scale))

(* segment_sizes without the special case of the head *)
SegmentSizesRun_NoHeadFloor(energy) ==
    LET i     == FP + BodySizeFunctionOffset
        scale == (energy + ScaleEpsilon) * BodySizeMultiplier
    IN  SizesLoop(i, scale, <<SizeAt(i, scale)>>)

(* the generator Worm.segment_sizes, run to its end: the values it yields *)
(* and whether it stopped by itself                                       *)
SegmentSizesRun(energy) ==
    LET i     == FP + BodySizeFunctionOffset
        scale == (energy + ScaleEpsilon) * BodySizeMultiplier
    IN  SizesLoop(i, scale, <<Max(SizeAt(i, scale), HeadFloor)>>)

segment_sizes(energy) == SegmentSizesRun(energy).out

----------------------------------------------------------------------------
(* Vec, distance, Segment *)

Vec(x, y) == [x |-> x, y |-> y]

magnitude(v) == Hypot(v.x, v.y)

(* Vec.normalized: the zero vector stays the zero vector *)
normalized(x, y) ==
    LET Scaled(m) == IF m = 0 THEN Vec(0, 0) ELSE Vec(RDiv(x * FP, m), RDiv(y * FP, m))
    IN  Scaled(Hypot(x, y))

distance(a, b) == Hypot(a.x - b.x, a.y - b.y)

Segment(pos, radius) == [pos |-> pos, radius |-> radius]

(* size * base_size, a length *)
SizeToRadius(size) == RDiv(size * BaseSize * LenUnit, FP)

----------------------------------------------------------------------------
(* Worm.eat, Worm.burn.  An operation returns the worm it leaves and the   *)
(* exception it raised, if any.                                            *)

(* eat that puts a new segment at the head instead of the tail *)
RECURSIVE EatLoop_AtHead(_, _, _, _)
EatLoop_AtHead(segs, n, sizes, k) ==
    IF k > Max(n, Len(sizes)) THEN [segments |-> segs, err |-> "none"]
    ELSE IF k > Len(sizes) THEN [segments |-> segs, err |-> "TypeError"]
    ELSE IF k > n
         THEN EatLoop_AtHead(Append(segs, Segment(segs[1].pos, SizeToRadius(sizes[k]))),
                             n, sizes, k + 1)
         ELSE EatLoop_AtHead([segs EXCEPT ![k].radius = SizeToRadius(sizes[k])],
                             n, sizes, k + 1)

RECURSIVE EatLoop(_, _, _, _)
EatLoop(segs, n, sizes, k) ==
    IF k > Max(n, Len(sizes)) THEN [segments |-> segs, err |-> "none"]
    ELSE IF k > Len(sizes) THEN [segments |-> segs, err |-> "TypeError"]
    ELSE IF k > n
         THEN EatLoop(Append(segs, Segment(segs[Len(segs)].pos, SizeToRadius(sizes[k]))),
                      n, sizes, k + 1)
         ELSE EatLoop([segs EXCEPT ![k].radius = SizeToRadius(sizes[k])], n, sizes, k + 1)

eat(w, energy) ==
    LET e == w.energy + energy
        Fed(r) == [worm |-> [w EXCEPT !.energy = e, !.segments = r.segments], err |-> r.err]
    IN  Fed(EatLoop(w.segments, Len(w.segments), segment_sizes(e), 1))

(* burn that resizes the segments it has sizes for and keeps the rest *)
burn_KeepTail(w, energy) ==
    LET e == IF w.energy - energy < 0 THEN 0 ELSE w.energy - energy
        Zipped(sizes) ==
            [w EXCEPT !.energy = e,
                      !.segments = [k \in 1..Len(w.segments) |->
                                      IF k <= Len(sizes)
                                      THEN Segment(w.segments[k].pos, SizeToRadius(sizes[k]))
                                      ELSE w.segments[k]]]
    IN  Zipped(segment_sizes(e))

burn(w, energy) ==
    LET e == IF w.energy - energy < 0 THEN 0 ELSE w.energy - energy
        Zipped(sizes) ==
            [w EXCEPT !.energy = e,
                      !.segments = [k \in 1..Min(Len(w.segments), Len(sizes)) |->
                                      Segment(w.segments[k].pos, SizeToRadius(sizes[k]))]]
    IN  Zipped(segment_sizes(e))

(* Worm.__init__ *)
Worm(pos) ==
    eat([segments |-> <<Segment(pos, BaseSize * LenUnit)>>,
         acc |-> Vec(0, 0), vel |-> Vec(0, 0), energy |-> 0], FP).worm

----------------------------------------------------------------------------
(* Worm.move *)

(* the spacing above which a follower is pulled in *)
SpacingLimit(p, n) == RDiv((p.radius + n.radius) * (FP - NodeOverlap), FP)

(* a pair step that moves the follower only half of the clip *)
RelaxPair_Half(segs, k) ==
    LET p == segs[k]
        n == segs[k + 1]
        Pull(dist, clip) ==
            IF clip > 0
            THEN [segs EXCEPT ![k + 1].pos =
                     Vec(n.pos.x + RDiv((p.pos.x - n.pos.x) * clip, 2 * dist),
                         n.pos.y + RDiv((p.pos.y - n.pos.y) * clip, 2 * dist))]
            ELSE segs
        Measured(dist) == Pull(dist, dist - SpacingLimit(p, n))
    IN  Measured(distance(p.pos, n.pos))

(* one step of the pairwise loop: the pair (segs[k], segs[k + 1]) *)
RelaxPair(segs, k) ==
    LET p == segs[k]
        n == segs[k + 1]
        Pull(dist, clip) ==
            IF clip > 0
            THEN [segs EXCEPT ![k + 1].pos =
                     Vec(n.pos.x + RDiv((p.pos.x - n.pos.x) * clip, dist),
                         n.pos.y + RDiv((p.pos.y - n.pos.y) * clip, dist))]
            ELSE segs
        Measured(dist) == Pull(dist, dist - SpacingLimit(p, n))
    IN  Measured(distance(p.pos, n.pos))

(* a pass that measures every pair against the positions before the pass *)
Relax_FromOld(segs, k) ==
    [i \in 1..Len(segs) |->
        IF i <= k THEN segs[i] ELSE RelaxPair(<<segs[i - 1], segs[i]>>, 1)[2]]

RECURSIVE Relax(_, _)
Relax(segs, k) == IF k >= Len(segs) THEN segs ELSE Relax(RelaxPair(segs, k), k + 1)

EnergyDrain(acc) ==
    RDiv(magnitude(acc) * (FP - EnergyEfficiency) * Power, FP * TicksPerSecond)

(* (1 - drag) * v: the product is cut toward zero, so that a coasting worm  *)
(* comes to rest as the float velocity decays to nothing                    *)
Damp(v, drag) == TDiv(v * (FP - drag), FP)

move(w) ==
    LET Advanced(w2, vel) ==
            [w2 EXCEPT !.vel = vel,
                       !.segments = Relax([w2.segments EXCEPT ![1].pos =
                                              Vec(w2.segments[1].pos.x + vel.x,
                                                  w2.segments[1].pos.y + vel.y)], 1)]
        Spent(drain) ==
            Advanced(burn(IF drain > w.energy THEN [w EXCEPT !.energy = 0] ELSE w, drain),
                     Vec(Damp(w.vel.x + RDiv(w.acc.x * Power * LenUnit, FP * TicksPerSecond),
                              Drag),
                         Damp(w.vel.y + RDiv(w.acc.y * Power * LenUnit, FP * TicksPerSecond),
                              Drag)))
    IN  Spent(EnergyDrain(w.acc))

(* Worm.update_manual: x, y in -1..1 from the keys held *)
update_manual(w, x, y) == move([w EXCEPT !.acc = normalized(x * FP, y * FP)])

----------------------------------------------------------------------------
(* Worm.update: the automatic control.  turn is what the random draws of   *)
(* the tick give when no food is in sight: keep the acceleration           *)
(* (random() >= 0.05) or take normalized(x, y).                            *)

(* the scan for the closest food in sight: [food, dist], food = 0 for None *)
RECURSIVE Closest(_, _, _, _, _)
Closest(pos, fs, range, k, best) ==
    IF k > Len(fs) THEN best
    ELSE LET Seen(dist) ==
                 IF dist > range THEN best
                 ELSE IF best.index = 0 \/ dist < best.dist
                      THEN [index |-> k, dist |-> dist]
                      ELSE best
         IN  Closest(pos, fs, range, k + 1, Seen(distance(pos, fs[k].pos)))

NoTarget == [index |-> 0, dist |-> 0]

(* whether the worm is to stay in the simulation: self.energy > 0 *)
is_alive_IfMoved(w) == ~(w.energy = 0 /\ magnitude(w.acc) > 0)

is_alive(w) == w.energy > 0

update(w, fs, turn) ==
    LET head == w.segments[1]
        Steered(c) ==
            IF c.index # 0 /\ c.dist = 0
            THEN [worm |-> w, err |-> "ZeroDivisionError", target |-> c]
            ELSE [worm |-> move(IF c.index # 0
                                THEN [w EXCEPT !.acc =
                                        Vec(RDiv((fs[c.index].pos.x - head.pos.x) * FP, c.dist),
                                            RDiv((fs[c.index].pos.y - head.pos.y) * FP, c.dist))]
                                ELSE IF turn.keep THEN w
                                ELSE [w EXCEPT !.acc = normalized(turn.x * FP, turn.y * FP)]),
                  err |-> "none", target |-> c]
    IN  Steered(Closest(head.pos, fs, VisionRange * LenUnit, 1, NoTarget))

----------------------------------------------------------------------------
(* Food *)

FoodRadius == 10
FoodDecayRate == 2400
FoodMinRadius == 420

(* a food carries the tick it was spawned in, to tell the objects apart *)
Food(id, pos) == [id |-> id, pos |-> pos, radius |-> FoodRadius * LenUnit]

FoodDecay == RDiv(FoodDecayRate * LenUnit, FP * TicksPerSecond)

(* Food.update: the food after the call; it stays while radius > 0.7 *)
food_update(f) == [f EXCEPT !.radius = f.radius - FoodDecay]

----------------------------------------------------------------------------
(* Virus *)

VirusRadius == 7
VirusPower == 1
VirusDrag == 120
VirusVisionRange == 100
InactivityTime == 18000
VirusDecayRate == 1200
VirusMinRadius == 420

Virus(id, pos) ==
    [id |-> id, pos |-> pos, radius |-> VirusRadius * LenUnit,
     acc |-> Vec(0, 0), vel |-> Vec(0, 0), lifetime |-> 0, active |-> FALSE]

(* update_dt in units of 1/FP second *)
Dt == FP \div TicksPerSecond

virus_move(v) ==
    LET vel == Vec(Damp(v.vel.x + v.acc.x, VirusDrag), Damp(v.vel.y + v.acc.y, VirusDrag))
    IN  [v EXCEPT !.vel = vel, !.pos = Vec(v.pos.x + vel.x, v.pos.y + vel.y)]

VirusDecay == RDiv(VirusDecayRate * LenUnit, FP * TicksPerSecond)

(* a virus that wakes up as soon as a worm is in sight *)
virus_update_OnSight(v, heads) ==
    LET v1 == [v EXCEPT !.lifetime = v.lifetime + Dt]
        Decayed(v2) == [virus |-> [v2 EXCEPT !.radius = v2.radius - VirusDecay],
                        alive |-> v2.radius - VirusDecay > VirusMinRadius, err |-> "none"]
        Homed(c) ==
            IF ~v.active
            THEN [virus |-> IF v1.lifetime > InactivityTime \/ c.index # 0
                            THEN [v1 EXCEPT !.active = TRUE] ELSE v1,
                  alive |-> TRUE, err |-> "none"]
            ELSE IF c.index # 0 /\ c.dist = 0
            THEN [virus |-> v1, alive |-> TRUE, err |-> "ZeroDivisionError"]
            ELSE Decayed(IF c.index = 0 THEN v1
                         ELSE virus_move([v1 EXCEPT !.acc =
                                 Vec(RDiv((heads[c.index].pos.x - v.pos.x) * VirusPower * LenUnit,
                                          c.dist * TicksPerSecond),
                                     RDiv((heads[c.index].pos.y - v.pos.y) * VirusPower * LenUnit,
                                          c.dist * TicksPerSecond))]))
    IN  Homed(Closest(v.pos, heads, VirusVisionRange * LenUnit, 1, NoTarget))

(* Virus.update; heads is the list of the worms' heads, as [pos |-> ...] *)
virus_update(v, heads) ==
    LET v1 == [v EXCEPT !.lifetime = v.lifetime + Dt]
        Decayed(v2) == [virus |-> [v2 EXCEPT !.radius = v2.radius - VirusDecay],
                        alive |-> v2.radius - VirusDecay > VirusMinRadius, err |-> "none"]
        Homed(c) ==
            IF ~v.active
            THEN [virus |-> IF v1.lifetime > InactivityTime
                            THEN [v1 EXCEPT !.active = TRUE] ELSE v1,
                  alive |-> TRUE, err |-> "none"]
            ELSE IF c.index # 0 /\ c.dist = 0
            THEN [virus |-> v1, alive |-> TRUE, err |-> "ZeroDivisionError"]
            ELSE Decayed(IF c.index = 0 THEN v1
                         ELSE virus_move([v1 EXCEPT !.acc =
                                 Vec(RDiv((heads[c.index].pos.x - v.pos.x) * VirusPower * LenUnit,
                                          c.dist * TicksPerSecond),
                                     RDiv((heads[c.index].pos.y - v.pos.y) * VirusPower * LenUnit,
                                          c.dist * TicksPerSecond))]))
    IN  Homed(Closest(v.pos, heads, VirusVisionRange * LenUnit, 1, NoTarget))

----------------------------------------------------------------------------
(* Simulation: the window and the fresh worm of Simulation.__init__ *)

WIDTH == 1600
HEIGHT == 900

Centre == Vec((WIDTH \div 2) * LenUnit, (HEIGHT \div 2) * LenUnit)

(* the energy one call of Worm.eat adds (a food), Worm.burn takes (a virus) *)
FoodEnergy == 600
VirusPenalty == 600

(* A worm as some earlier run of the program left it: constructed at pos,  *)
(* fed or drained to the given energy, then dragged along the x axis until *)
(* each follower trails its predecessor by stretch/2 of the spacing limit, *)
(* and moving with velocity vel.                                           *)
Grown(pos, energy) ==
    IF energy >= FP THEN eat(Worm(pos), energy - FP).worm
                    ELSE burn(Worm(pos), FP - energy)

RECURSIVE Trail(_, _, _)
Trail(segs, k, stretch) ==
    IF k > Len(segs) THEN segs
    ELSE Trail([segs EXCEPT ![k].pos =
                   Vec(segs[k - 1].pos.x - (SpacingLimit(segs[k - 1], segs[k]) * stretch) \div 2,
                       segs[k - 1].pos.y)],
               k + 1, stretch)

Cruising(pos, energy, stretch, vel) ==
    LET Dragged(w) == [w EXCEPT !.segments = Trail(w.segments, 2, stretch), !.vel = vel]
    IN  Dragged(Grown(pos, energy))

(* the velocity a worm accelerating along one axis settles at *)
CruiseSpeed == (RDiv(Power * LenUnit, TicksPerSecond) * (FP - Drag)) \div Drag

(* the keys held during a tick, as the (x, y) update_manual reads *)
KeySets == {<<0, 0>>, <<1, 0>>, <<-1, 1>>}

(* Simulation.update: the boundaries *)
ClampTo(v, hi) == IF v < 0 THEN 0 ELSE IF v > hi THEN hi ELSE v

Clamp_NoUpper(w) ==
    LET p == w.segments[1].pos
    IN  [w EXCEPT !.segments[1].pos = Vec(Max(p.x, 0), Max(p.y, 0))]

Clamp(w) ==
    LET p == w.segments[1].pos
    IN  [w EXCEPT !.segments[1].pos =
            Vec(ClampTo(p.x, WIDTH * LenUnit), ClampTo(p.y, HEIGHT * LenUnit))]

(* list.remove of the element the iterator stands on: the first that is it *)
Remove(seq, i) == SubSeq(seq, 1, i - 1) \o SubSeq(seq, i + 1, Len(seq))

(* for food in self.foods, the list iterator at index i (from 1): a removal *)
(* shifts the rest of the list under the iterator                          *)
RECURSIVE FoodPass(_, _, _)
FoodPass(w, fs, i) ==
    IF i > Len(fs) THEN [worm |-> w, foods |-> fs, err |-> "none"]
    ELSE LET food == fs[i]
             head == w.segments[1]
         IN  IF distance(head.pos, food.pos) < head.radius + food.radius
             THEN LET Eaten(r) ==
                          IF r.err # "none"
                          THEN [worm |-> r.worm, foods |-> Remove(fs, i), err |-> r.err]
                          ELSE FoodPass(r.worm, Remove(fs, i), i + 1)
                  IN  Eaten(eat(w, FoodEnergy))
             ELSE LET f == food_update(food)
                  IN  IF f.radius > FoodMinRadius
                      THEN FoodPass(w, [fs EXCEPT ![i] = f], i + 1)
                      ELSE FoodPass(w, Remove(fs, i), i + 1)

(* for virus in self.viruses, likewise *)
RECURSIVE VirusPass(_, _, _)
VirusPass(w, vs, i) ==
    IF i > Len(vs) THEN [worm |-> w, viruses |-> vs, err |-> "none"]
    ELSE LET virus == vs[i]
             head  == w.segments[1]
         IN  IF virus.active /\ distance(head.pos, virus.pos) < head.radius + virus.radius
             THEN VirusPass(burn(w, VirusPenalty), Remove(vs, i), i + 1)
             ELSE LET Updated(r) ==
                          IF r.err # "none"
                          THEN [worm |-> w, viruses |-> [vs EXCEPT ![i] = r.virus],
                                err |-> r.err]
                          ELSE IF r.alive
                          THEN VirusPass(w, [vs EXCEPT ![i] = r.virus], i + 1)
                          ELSE VirusPass(w, Remove(vs, i), i + 1)
                  IN  Updated(virus_update(virus, <<head>>))

----------------------------------------------------------------------------
(* Specification SpecSizes: the generator segment_sizes on its own *)

MaxEnergySteps == 480
EnergyStep == 100

SizeEnergies == {k * EnergyStep : k \in 0..MaxEnergySteps}

Idle ==
    /\ foods = <<>>
    /\ viruses = <<>>
    /\ manual_control = TRUE
    /\ err = "none"
    /\ nticks = 0
    /\ last = [op |-> "init"]

InitSizes ==
    /\ worm \in {Grown(Centre, e) : e \in SizeEnergies}
    /\ Idle

SegmentSizes ==
    /\ last.op = "init"
    /\ last' = [op |-> "segment_sizes", energy |-> worm.energy,
                run |-> SegmentSizesRun(worm.energy)]
    /\ UNCHANGED <<worm, foods, viruses, manual_control, err, nticks>>

NextSizes == SegmentSizes

SpecSizes == InitSizes /\ [][NextSizes]_vars

----------------------------------------------------------------------------
(* Specification SpecWorm: the worm's own operations, called in any order *)

MaxOps == 4

WormEnergies == {20, FP, FP + 4 * FoodEnergy}

InitWorm ==
    /\ worm \in {Cruising(Centre, e, st, v) :
                    e \in WormEnergies, st \in 0..2,
                    v \in {Vec(0, 0), Vec(CruiseSpeed, 0)}}
    /\ Idle

WormEat ==
    /\ nticks < MaxOps
    /\ err = "none"
    /\ LET r == eat(worm, FoodEnergy)
       IN  /\ worm' = r.worm
           /\ err' = r.err
    /\ last' = [op |-> "eat", energy |-> FoodEnergy, pre |-> worm]
    /\ nticks' = nticks + 1
    /\ UNCHANGED <<foods, viruses, manual_control>>

WormBurn ==
    /\ nticks < MaxOps
    /\ err = "none"
    /\ worm' = burn(worm, VirusPenalty)
    /\ last' = [op |-> "burn", energy |-> VirusPenalty, pre |-> worm]
    /\ nticks' = nticks + 1
    /\ UNCHANGED <<foods, viruses, manual_control, err>>

WormMove ==
    /\ nticks < MaxOps
    /\ err = "none"
    /\ \E k \in KeySets :
          /\ worm' = update_manual(worm, k[1], k[2])
          /\ last' = [op |-> "move", pre |-> [worm EXCEPT !.acc = normalized(k[1] * FP, k[2] * FP)]]
    /\ nticks' = nticks + 1
    /\ UNCHANGED <<foods, viruses, manual_control, err>>

NextWorm == WormEat \/ WormBurn \/ WormMove

SpecWorm == InitWorm /\ [][NextWorm]_vars

----------------------------------------------------------------------------
(* Specification SpecVirus: one virus, updated against any list of worms *)

MaxVirusUpdates == 186

VirusSpot == Vec((WIDTH \div 2 + 30) * LenUnit, (HEIGHT \div 2 + 40) * LenUnit)

(* the lists of worms a call may be given: none, one in sight, one out of sight *)
HeadLists == {<<>>, <<[pos |-> Centre]>>, <<[pos |-> Vec(0, 0)]>>}

InitVirus ==
    /\ worm = Worm(Centre)
    /\ foods = <<>>
    /\ viruses = <<Virus(0, VirusSpot)>>
    /\ manual_control = TRUE
    /\ err = "none"
    /\ nticks = 0
    /\ last = [op |-> "init"]

VirusUpdate ==
    /\ nticks < MaxVirusUpdates
    /\ err = "none"
    /\ viruses # <<>>
    /\ \E heads \in HeadLists :
          LET r == virus_update(viruses[1], heads)
          IN  /\ viruses' = IF r.alive THEN <<r.virus>> ELSE <<>>
              /\ err' = r.err
    /\ last' = [op |-> "virus_update", was_active |-> viruses[1].active]
    /\ nticks' = nticks + 1
    /\ UNCHANGED <<worm, foods, manual_control>>

NextVirus == VirusUpdate

SpecVirus == InitVirus /\ [][NextVirus]_vars

----------------------------------------------------------------------------
(* Specification SpecSim: Simulation.update and Simulation.handle_event,   *)
(* from states an earlier run of the program left.                         *)

MaxTicks == 2

(* a worm hit by viruses at the centre until one penalty is left, and one  *)
(* about to run out of energy while cruising into the right border         *)
EdgeSpot == Vec(WIDTH * LenUnit - CruiseSpeed \div 2, (HEIGHT \div 2) * LenUnit)

WeakWorm == Grown(Centre, VirusPenalty)

SpentWorm == Cruising(EdgeSpot, EnergyDrain(Vec(FP, 0)), 0, Vec(CruiseSpeed, 0))

(* a food spawned in a far corner long ago, one decay above the threshold *)
OldFood == [Food(-1, Vec(0, HEIGHT * LenUnit)) EXCEPT !.radius = FoodMinRadius + FoodDecay]

(* a food spawned in sight of the centre some ticks ago *)
FoodAge == 10

RecentFood ==
    [Food(0, Vec((WIDTH \div 2 + 100) * LenUnit, (HEIGHT \div 2) * LenUnit))
        EXCEPT !.radius = FoodRadius * LenUnit - FoodAge * FoodDecay]

(* a virus that woke up in the last tick, in contact with a worm at the    *)
(* centre, and one in sight of it                                          *)
Woken(id, pos) == [Virus(id, pos) EXCEPT !.lifetime = InactivityTime + Dt, !.active = TRUE]

NearVirus == Woken(-1, Vec((WIDTH \div 2 + 5) * LenUnit, (HEIGHT \div 2) * LenUnit))

MidVirus == Woken(0, Vec((WIDTH \div 2 + 60) * LenUnit, (HEIGHT \div 2) * LenUnit))

(* the states the simulation starts from: just constructed; idle at the    *)
(* centre since the old food was spawned, with or without a later food;    *)
(* weakened, with viruses awake around it; spent, at the border            *)
SimStates ==
    {[worm |-> Worm(Centre), foods |-> <<>>, viruses |-> <<>>],
     [worm |-> Worm(Centre), foods |-> <<OldFood>>, viruses |-> <<>>],
     [worm |-> Worm(Centre), foods |-> <<OldFood, RecentFood>>, viruses |-> <<>>],
     [worm |-> WeakWorm, foods |-> <<>>, viruses |-> <<NearVirus, MidVirus>>],
     [worm |-> SpentWorm, foods |-> <<>>, viruses |-> <<>>]}

InitSim ==
    /\ \E st \in SimStates :
          /\ worm = st.worm
          /\ foods = st.foods
          /\ viruses = st.viruses
    /\ manual_control = TRUE
    /\ err = "none"
    /\ nticks = 0
    /\ last = [op |-> "init"]

(* the draws of a tick: random() < p and the randint position, in pixels *)
NoSpawn == [spawn |-> FALSE, pos |-> Vec(0, 0)]

FoodSpawns ==
    {NoSpawn,
     [spawn |-> TRUE, pos |-> Vec(WIDTH \div 2, HEIGHT \div 2)],
     [spawn |-> TRUE, pos |-> Vec(WIDTH \div 2 + 100, HEIGHT \div 2)]}

VirusSpawns == {NoSpawn, [spawn |-> TRUE, pos |-> Vec(WIDTH \div 2, HEIGHT \div 2 + 50)]}

KeepTurn == [keep |-> TRUE, x |-> 0, y |-> 0]

Turns == {KeepTurn, [keep |-> FALSE, x |-> 1, y |-> 0], [keep |-> FALSE, x |-> -1, y |-> 1]}

InPixels(pos) == Vec(pos.x * LenUnit, pos.y * LenUnit)

(* Simulation.update after the movement step m = [worm, err, target] *)
UpdateAfter(m, fsp, vsp) ==
    IF m.err # "none"
    THEN /\ err' = m.err
         /\ last' = [op |-> "crash", target |-> m.target]
         /\ UNCHANGED <<worm, foods, viruses>>
    ELSE LET fs1 == IF fsp.spawn THEN Append(foods, Food(nticks + 1, InPixels(fsp.pos)))
                                 ELSE foods
             vs1 == IF vsp.spawn THEN Append(viruses, Virus(nticks + 1, InPixels(vsp.pos)))
                                 ELSE viruses
             Finished(w1, fp, vp) ==
                 /\ worm' = vp.worm
                 /\ foods' = fp.foods
                 /\ viruses' = vp.viruses
                 /\ err' = vp.err
                 /\ last' = [op |-> IF vp.err = "none" THEN "update" ELSE "crash",
                             target |-> m.target,
                             acc |-> m.worm.acc,
                             energy |-> m.worm.energy,
                             respawned |-> ~is_alive(m.worm),
                             after_death |-> w1,
                             foods0 |-> foods]
             AfterFoods(w1, fp) ==
                 Finished(w1, fp, IF fp.err = "none" THEN VirusPass(fp.worm, vs1, 1)
                                  ELSE [worm |-> fp.worm, viruses |-> vs1, err |-> fp.err])
             AfterDeath(w1) == AfterFoods(w1, FoodPass(Clamp(w1), fs1, 1))
         IN  AfterDeath(IF is_alive(m.worm) THEN m.worm ELSE Worm(Centre))

Update ==
    /\ nticks < MaxTicks
    /\ err = "none"
    /\ nticks' = nticks + 1
    /\ UNCHANGED manual_control
    /\ \E fsp \in FoodSpawns, vsp \in VirusSpawns,
          k \in IF manual_control THEN KeySets ELSE {<<0, 0>>},
          turn \in IF manual_control THEN {KeepTurn} ELSE Turns :
          UpdateAfter(IF manual_control
                      THEN [worm |-> update_manual(worm, k[1], k[2]), err |-> "none",
                            target |-> NoTarget]
                      ELSE update(worm, foods, turn),
                      fsp, vsp)

(* Simulation.handle_event on the space key *)
HandleEvent ==
    /\ err = "none"
    /\ manual_control' = ~manual_control
    /\ last' = [op |-> "handle_event"]
    /\ UNCHANGED <<worm, foods, viruses, err, nticks>>

Next == Update \/ HandleEvent

Spec == InitSim /\ [][Next]_vars

----------------------------------------------------------------------------
(* Claims about segment_sizes (SpecSizes) *)

NonIncreasing(seq) == \A k \in 1..(Len(seq) - 1) : seq[k] >= seq[k + 1]

SizesDone == last.op = "segment_sizes" /\ last.energy > 0

(* C4, as stated: for every energy > 0 the generator terminates, the       *)
(* values never increase with the index, and the first value is >= 1.0.    *)
C4_AsStated ==
    SizesDone =>
        /\ last.run.done
        /\ NonIncreasing(last.run.out)
        /\ last.run.out[1] >= FP

(* the energy up to which the size sequence is checked to be monotone: 4.9 *)
MonotoneUpTo == 49 * (FP \div 10)

(* C4, amended: for every energy > 0 the generator terminates and the      *)
(* first value is >= 1.0; the values never increase with the index as long *)
(* as energy <= 4.9.                                                       *)
C4_Amended ==
    SizesDone =>
        /\ last.run.done
        /\ last.run.out[1] >= FP
        /\ (last.energy <= MonotoneUpTo => NonIncreasing(last.run.out))

(* C4 witness: a sequence of several values was generated *)
C4_Witness ==
    /\ SizesDone
    /\ last.energy <= MonotoneUpTo
    /\ Len(last.run.out) >= 4

----------------------------------------------------------------------------
(* Claims about the worm's operations (SpecWorm) *)

(* rounding slack of a distance, in length units *)
SpacingTol == 2

Spacing(segs, k) == distance(segs[k].pos, segs[k + 1].pos)

(* C1, as stated: after Worm.move every adjacent pair of segments is at    *)
(* least (1 - overlap) * (r_prev + r_next) apart, up to the tolerance.     *)
C1_AsStated ==
    last.op = "move" =>
        \A k \in 1..(Len(worm.segments) - 1) :
            Spacing(worm.segments, k) >=
                SpacingLimit(worm.segments[k], worm.segments[k + 1]) - SpacingTol

(* C1, amended: after Worm.move every adjacent pair of segments is at most *)
(* (1 - overlap) * (r_prev + r_next) apart, up to the tolerance: the pass  *)
(* pulls a follower in, it never pushes one away.                          *)
C1_Amended ==
    last.op = "move" =>
        \A k \in 1..(Len(worm.segments) - 1) :
            Spacing(worm.segments, k) <=
                SpacingLimit(worm.segments[k], worm.segments[k + 1]) + SpacingTol

(* C1 witness: a move whose pass pulled a follower in *)
C1_Witness ==
    /\ last.op = "move"
    /\ \E k \in 2..Len(worm.segments) : worm.segments[k].pos # last.pre.segments[k].pos

(* C2: after Worm.burn(e) the energy is max(old - e, 0), never negative,   *)
(* and the segments are the prefix of the old segments as long as the size *)
(* sequence of the new energy; the head stays first, the list is not empty *)
C2_Burn ==
    last.op = "burn" =>
        /\ worm.energy = Max(last.pre.energy - last.energy, 0)
        /\ worm.energy >= 0
        /\ Len(worm.segments) = Len(segment_sizes(worm.energy))
        /\ Len(worm.segments) >= 1
        /\ Len(worm.segments) <= Len(last.pre.segments)
        /\ \A k \in 1..Len(worm.segments) : worm.segments[k].pos = last.pre.segments[k].pos

(* C2 witness: a burn that dropped a tail segment of a stretched worm *)
C2_Witness ==
    /\ last.op = "burn"
    /\ Len(worm.segments) < Len(last.pre.segments)
    /\ last.pre.segments[Len(last.pre.segments)].pos # last.pre.segments[1].pos

(* C3: Worm.eat(e) removes no segment: the count becomes the larger of the *)
(* old count and the length of the new size sequence, old segments keep    *)
(* position and index, new ones sit where the old tail was, and segment i  *)
(* has radius scale(i) * base_size.                                        *)
C3_Eat ==
    last.op = "eat" =>
        LET old   == last.pre.segments
            sizes == segment_sizes(worm.energy)
        IN  /\ err = "none"
            /\ Len(worm.segments) = Max(Len(old), Len(sizes))
            /\ \A k \in 1..Len(old) : worm.segments[k].pos = old[k].pos
            /\ \A k \in (Len(old) + 1)..Len(worm.segments) :
                   worm.segments[k].pos = old[Len(old)].pos
            /\ \A k \in 1..Len(worm.segments) :
                   worm.segments[k].radius = SizeToRadius(sizes[k])

(* C3 witness: an eat that appended a segment behind a stretched worm *)
C3_Witness ==
    /\ last.op = "eat"
    /\ Len(worm.segments) > Len(last.pre.segments)
    /\ Len(last.pre.segments) >= 2
    /\ last.pre.segments[Len(last.pre.segments)].pos # last.pre.segments[1].pos

(* C9, as stated: in one Worm.move a segment at index >= 2 (counting the   *)
(* head as 0) whose spacing to its predecessor was within the limit before *)
(* the call is not moved.                                                  *)
C9_AsStated ==
    last.op = "move" =>
        \A k \in 3..Len(worm.segments) :
            Spacing(last.pre.segments, k - 1) <=
                SpacingLimit(worm.segments[k - 1], worm.segments[k])
            => worm.segments[k].pos = last.pre.segments[k].pos

(* C9, amended: the pass measures each pair against the predecessor's      *)
(* already updated position, so a correction runs down the chain within    *)
(* one call: a segment behind the head is left where it was exactly when   *)
(* its distance to its predecessor's new position is within the limit.     *)
C9_Amended ==
    last.op = "move" =>
        \A k \in 2..Len(worm.segments) :
            worm.segments[k].pos = last.pre.segments[k].pos
            <=> distance(worm.segments[k - 1].pos, last.pre.segments[k].pos) <=
                    SpacingLimit(worm.segments[k - 1], worm.segments[k])

(* C9 witness: a move that pulled the third segment along *)
C9_Witness ==
    /\ last.op = "move"
    /\ Len(worm.segments) >= 3
    /\ worm.segments[2].pos # last.pre.segments[2].pos
    /\ worm.segments[3].pos # last.pre.segments[3].pos

----------------------------------------------------------------------------
(* Claims about Virus.update (SpecVirus) *)

(* C8: a virus starts dormant, its active flag goes from false to true     *)
(* once and never back, whatever worms it is shown, and with               *)
(* inactivity_time = 3.0 and dt = 1/60 not before the 180th update (it is  *)
(* the 181st, the first with lifetime > 3.0).                              *)
C8_Activation ==
    viruses # <<>> =>
        /\ (nticks = 0 => ~viruses[1].active)
        /\ (viruses[1].active => nticks >= 180)
        /\ (nticks > 180 => viruses[1].active)
        /\ (last.op = "virus_update" /\ last.was_active => viruses[1].active)

(* C8 witness: the update that woke the virus up *)
C8_Witness ==
    /\ viruses # <<>>
    /\ last.op = "virus_update"
    /\ ~last.was_active
    /\ viruses[1].active

----------------------------------------------------------------------------
(* Claims about Simulation.update (Spec) *)

FreshAtCentre(w) ==
    /\ w.segments[1].pos = Vec((WIDTH \div 2) * LenUnit, (HEIGHT \div 2) * LenUnit)
    /\ w.energy = FP
    /\ w.vel = Vec(0, 0)

(* C5, as stated: a tick replaces the worm by a fresh one at the centre    *)
(* exactly when its movement step had a non-zero acceleration and left the *)
(* energy at zero.                                                         *)
C5_AsStated ==
    last.op = "update" =>
        /\ last.respawned <=> (magnitude(last.acc) > 0 /\ last.energy = 0)
        /\ last.respawned => FreshAtCentre(last.after_death)

(* C5, amended: a tick replaces the worm by a fresh one at the centre      *)
(* exactly when the energy is zero after its movement step, whether the    *)
(* step spent the last of it or it was zero already and nothing was spent. *)
C5_Amended ==
    last.op = "update" =>
        /\ last.respawned <=> last.energy = 0
        /\ last.respawned => FreshAtCentre(last.after_death)
        /\ last.energy >= 0

(* C5 witness: a worm that spent its last energy accelerating is replaced *)
C5_Witness ==
    /\ last.op = "update"
    /\ last.respawned
    /\ magnitude(last.acc) > 0

(* C6, as stated: a food that is in the list before and after a tick has   *)
(* lost exactly the decay 0.4 * dt of radius in it.                        *)
C6_AsStated ==
    last.op = "update" =>
        \A i \in 1..Len(foods) : \A j \in 1..Len(last.foods0) :
            foods[i].id = last.foods0[j].id =>
                foods[i].radius = last.foods0[j].radius - FoodDecay

(* C7: after every Simulation.update the head is inside the window *)
C7_HeadInWindow ==
    last.op = "update" =>
        /\ 0 <= worm.segments[1].pos.x /\ worm.segments[1].pos.x <= WIDTH * LenUnit
        /\ 0 <= worm.segments[1].pos.y /\ worm.segments[1].pos.y <= HEIGHT * LenUnit

(* C7 witness: a tick that moved the head past the right border *)
C7_Witness ==
    /\ last.op = "update"
    /\ last.after_death.segments[1].pos.x > WIDTH * LenUnit
    /\ worm.segments[1].pos.x = WIDTH * LenUnit

(* C10, as stated: no tick divides by zero: a food targeted by Worm.update *)
(* and a worm targeted by Virus.update are at a distance > 0.              *)
C10_AsStated ==
    /\ err # "ZeroDivisionError"
    /\ (last.op \in {"update", "crash"} /\ last.target.index # 0) => last.target.dist > 0

====
